---- MODULE Spec2Model ----
(***************************************************************************)
(* Model of src/lib/effect-schema-class.ts: generateEffectSchemas, the     *)
(* generator of Effect Schema class source text from table definitions.   *)
(*                                                                         *)
(* Representation.  A JavaScript string that the code inspects character   *)
(* by character (a table or field name, a type tag, a description, a       *)
(* default value) is a sequence of one-character strings.  Generated text  *)
(* is a sequence of pieces: each piece is either one character copied from *)
(* the input or one literal fragment of a template of the source; the text *)
(* is the concatenation of its pieces.  A line break of a template is      *)
(* always a piece of its own (NL), except the ",\n" that joins the field   *)
(* definitions (SEP).  An optional property (description?, defaultValue?,  *)
(* reference?) and a null argument are <<>> when absent and <<v>> when     *)
(* present.                                                                *)
(***************************************************************************)
EXTENDS Integers, Sequences, FiniteSets, TLC

VARIABLES tables, result

vars == <<tables, result>>

\* ---------------------------------------------------------------- bounds
MaxTables == 3
MaxFields == 3
MaxLen == 4

\* ------------------------------------------------------ JavaScript values
Absent == <<>>
Some(v) == <<v>>
IsPresent(o) == o /= <<>>
\* if (s) on an optional string: undefined and "" are both falsy.
Truthy(o) == o /= <<>> /\ o[1] /= <<>>

NL == "\n"
SEP == ",\n"
\* The backquote character, which a TLA+ string cannot hold.
Backtick == "BACKTICK"

LowerChars == <<"a", "b", "c", "d", "e", "f", "g", "h", "i", "j", "k", "l", "m", "n", "o", "p", "q", "r", "s", "t", "u", "v", "w", "x", "y", "z">>
UpperChars == <<"A", "B", "C", "D", "E", "F", "G", "H", "I", "J", "K", "L", "M", "N", "O", "P", "Q", "R", "S", "T", "U", "V", "W", "X", "Y", "Z">>
Digits == {"0", "1", "2", "3", "4", "5", "6", "7", "8", "9"}

IndexIn(c, t) == IF \E i \in 1..Len(t) : t[i] = c
                 THEN CHOOSE i \in 1..Len(t) : t[i] = c
                 ELSE 0

toUpperCase(s) == [i \in 1..Len(s) |->
                     IF IndexIn(s[i], LowerChars) > 0
                     THEN UpperChars[IndexIn(s[i], LowerChars)] ELSE s[i]]

toLowerCase(s) == [i \in 1..Len(s) |->
                     IF IndexIn(s[i], UpperChars) > 0
                     THEN LowerChars[IndexIn(s[i], UpperChars)] ELSE s[i]]

\* s.charAt(0): the empty string when s is empty.
charAt0(s) == IF Len(s) = 0 THEN <<>> ELSE <<s[1]>>

\* s.slice(1)
slice1(s) == IF Len(s) = 0 THEN <<>> ELSE Tail(s)

startsWith(s, c) == Len(s) > 0 /\ s[1] = c

\* s.includes('::')
includesColons(s) == \E i \in 1..(Len(s) - 1) : s[i] = ":" /\ s[i + 1] = ":"

AllDigits(s) == Len(s) > 0 /\ \A i \in 1..Len(s) : s[i] \in Digits

\* /^-?\d+(\.\d+)?$/.test(s)
isNumeric(s) ==
  LET u == IF startsWith(s, "-") THEN Tail(s) ELSE s
  IN  \/ AllDigits(u)
      \/ \E k \in 2..(Len(u) - 1) :
            /\ u[k] = "."
            /\ AllDigits(SubSeq(u, 1, k - 1))
            /\ AllDigits(SubSeq(u, k + 1, Len(u)))

RECURSIVE unescapeQuotes(_)
\* s.replace(/\\'/g, "'"): every backslash-quote pair, left to right, becomes a quote.
unescapeQuotes(s) ==
  IF Len(s) = 0 THEN <<>>
  ELSE IF Len(s) >= 2 /\ s[1] = "\\" /\ s[2] = "'"
       THEN <<"'">> \o unescapeQuotes(SubSeq(s, 3, Len(s)))
       ELSE <<s[1]>> \o unescapeQuotes(Tail(s))

RECURSIVE escapeQuotes(_)
\* s.replace(/'/g, "\\'"): every quote gets a backslash in front.
escapeQuotes(s) ==
  IF Len(s) = 0 THEN <<>>
  ELSE IF s[1] = "'"
       THEN <<"\\", "'">> \o escapeQuotes(Tail(s))
       ELSE <<s[1]>> \o escapeQuotes(Tail(s))

escapedDescription(d) == escapeQuotes(unescapeQuotes(d))

RECURSIVE join(_, _)
\* parts.join(sep), parts a sequence of texts and sep a text.
join(parts, sep) ==
  IF Len(parts) = 0 THEN <<>>
  ELSE IF Len(parts) = 1 THEN parts[1]
       ELSE parts[1] \o sep \o join(Tail(parts), sep)

\* ------------------------------------------------------------ formatClassName
\* formatClassName as an upper-casing of the whole name would be.
formatClassNameUpperAll(tableName) == toUpperCase(tableName)

formatClassName(tableName) == toUpperCase(charAt0(tableName)) \o slice1(tableName)

\* ------------------------------------------------------------------ type tags
T_int == <<"i", "n", "t">>
T_number == <<"n", "u", "m", "b", "e", "r">>
T_float == <<"f", "l", "o", "a", "t">>
T_bool == <<"b", "o", "o", "l">>
T_datetime == <<"d", "a", "t", "e", "t", "i", "m", "e">>
T_array == <<"a", "r", "r", "a", "y">>
T_array_float == <<"a", "r", "r", "a", "y", "_", "f", "l", "o", "a", "t">>
T_array_record == <<"a", "r", "r", "a", "y", "_", "r", "e", "c", "o", "r", "d">>
T_object == <<"o", "b", "j", "e", "c", "t">>
T_record == <<"r", "e", "c", "o", "r", "d">>
T_references == <<"r", "e", "f", "e", "r", "e", "n", "c", "e", "s">>
N_id == <<"i", "d">>
N_reply == <<"r", "e", "p", "l", "y", "_", "t", "o", "_", "m", "e", "s", "s", "a", "g", "e", "_", "i", "d">>
N_telegram == <<"t", "e", "l", "e", "g", "r", "a", "m", "_", "m", "e", "s", "s", "a", "g", "e">>

\* The two fallback patterns of the source, as it writes them.
PatternRecordId == "Schema.String.pipe(Schema.pattern(/^[a-zA-Z0-9_-]+:[a-zA-Z0-9_-]+$/))"
PatternRecordNum == "Schema.String.pipe(Schema.pattern(/^[a-zA-Z0-9_-]+:⟨\\d+⟩$/))"

recordIdCall(table) == <<"recordId(\"">> \o table \o <<"\")">>

\* ------------------------------------------------------------- annotations
descriptionEntries(field) ==
  IF Truthy(field.description)
  THEN << <<"description: '">> \o escapedDescription(field.description[1]) \o <<"'">> >>
  ELSE <<>>

\* needsQuotes without the test for the literals true and false.
needsQuotesNoBool(v) ==
  /\ ~startsWith(v, "'")
  /\ ~startsWith(v, "\"")
  /\ ~isNumeric(v)
  /\ ~startsWith(v, "[")
  /\ ~startsWith(v, "{")

needsQuotes(v) ==
  /\ ~startsWith(v, "'")
  /\ ~startsWith(v, "\"")
  /\ v /= <<"t", "r", "u", "e">>
  /\ v /= <<"f", "a", "l", "s", "e">>
  /\ ~isNumeric(v)
  /\ ~startsWith(v, "[")
  /\ ~startsWith(v, "{")

defaultEntries(field) ==
  IF ~Truthy(field.defaultValue) THEN <<>>
  ELSE LET v == field.defaultValue[1]
       IN  IF includesColons(v)
           THEN IF toLowerCase(field.type) = T_datetime
                THEN << <<"surrealDefault: '">> \o v \o <<"'">> >>
                ELSE << <<"default: ">> \o (<<"'">> \o v \o <<"'">>) >>
           ELSE IF needsQuotes(v)
                THEN << <<"default: ">> \o (<<"'">> \o v \o <<"'">>) >>
                ELSE << <<"default: ">> \o v >>

annotations(field) == descriptionEntries(field) \o defaultEntries(field)

annotationsStr(field) ==
  IF Len(annotations(field)) > 0
  THEN <<".annotations({ ">> \o join(annotations(field), <<", ">>) \o <<" })">>
  ELSE <<>>

\* ------------------------------------------------------------- type dispatch
\* The references fallback as the array_record fallback, pattern-constrained.
referencesFallbackPattern == <<"Schema.Array(", PatternRecordId, ")">>

\* case "references" without field.reference
referencesFallback == <<"Schema.Array(", "Schema.String", ")">>

\* The switch on field.type.toLowerCase(), without the annotations it appends.
validator(field) ==
  LET t == toLowerCase(field.type)
  IN  IF t = T_int \/ t = T_number THEN <<"Schema.Number.pipe(Schema.int())">>
      ELSE IF t = T_float THEN <<"Schema.Number">>
      ELSE IF t = T_bool THEN <<"Schema.Boolean">>
      ELSE IF t = T_datetime THEN <<"Schema.Date">>
      ELSE IF t = T_array THEN <<"Schema.Array(", "Schema.String", ")">>
      ELSE IF t = T_array_float THEN <<"Schema.Array(", "Schema.Number", ")">>
      ELSE IF t = T_array_record
           THEN IF IsPresent(field.reference)
                THEN <<"Schema.Array(">> \o recordIdCall(field.reference[1].table) \o <<")">>
                ELSE <<"Schema.Array(", PatternRecordId, ")">>
      ELSE IF t = T_object THEN <<"Schema.Record(Schema.String, Schema.Unknown)">>
      ELSE IF t = T_record
           THEN IF IsPresent(field.reference)
                THEN IF field.name = N_reply /\ field.reference[1].table = N_telegram
                     THEN recordIdCall(N_telegram)
                     ELSE recordIdCall(field.reference[1].table)
                ELSE <<PatternRecordNum>>
      ELSE IF t = T_references
           THEN IF IsPresent(field.reference)
                THEN <<"Schema.Array(">> \o recordIdCall(field.reference[1].table) \o <<")">>
                ELSE referencesFallback
      ELSE <<"Schema.String">>

\* effectType after the switch: the validator with the annotations appended.
dispatched(field) == validator(field) \o annotationsStr(field)

\* makeOptional comparing the type tag as written, without toLowerCase().
makeOptionalCaseSensitive(field) == field.type /= T_datetime /\ field.optional

\* if (field.type.toLowerCase() !== "datetime" && field.optional)
makeOptional(field) == toLowerCase(field.type) /= T_datetime /\ field.optional

\* effectType with the annotations appended after the optional wrapper.
effectTypeAnnotatedOutside(field) ==
  IF makeOptional(field)
  THEN <<"Schema.optional(">> \o validator(field) \o <<")">> \o annotationsStr(field)
  ELSE dispatched(field)

effectType(field) ==
  IF makeOptional(field)
  THEN <<"Schema.optional(">> \o dispatched(field) \o <<")">>
  ELSE dispatched(field)

fieldLine(field) == <<"  ">> \o field.name \o <<": ">> \o effectType(field)

\* ------------------------------------------------------------- class emitter
\* The text of the imports template (the shared preamble).
imports ==
  << "import { Schema } from \"effect\";", NL,
     NL,
     "// Type for representing a RecordId in Effect Schema", NL,
     "type RecordId<T extends string = string> = string & {", NL,
     "  readonly RecordId: unique symbol;", NL,
     "  readonly Table: T;", NL,
     "};", NL,
     NL,
     "/**", NL,
     " * Create a RecordId schema for a specific table", NL,
     " */", NL,
     "function recordId<T extends string>(tableName: T): Schema.Schema<RecordId<T>> {", NL,
     "  return Schema.String.pipe(", NL,
     "    Schema.pattern(/^[a-zA-Z0-9_-]+:[a-zA-Z0-9_-]+$/),", NL,
     "    Schema.brand(", Backtick, "RecordId<${tableName}>", Backtick, "),", NL,
     "  ) as unknown as Schema.Schema<RecordId<T>>;", NL,
     "}", NL >>

\* hasIdField looking at the first declared field only.
hasIdFieldFirstOnly(fields) == Len(fields) > 0 /\ fields[1].name = N_id

\* fields.some(field => field.name === 'id')
hasIdField(fields) == \E i \in 1..Len(fields) : fields[i].name = N_id

syntheticIdLine(name) ==
  <<"  id: recordId(\"">> \o name
    \o <<"\").annotations({", NL, "    description: \"Unique identifier\"", NL, "  })">>

fieldDefinitions(table) ==
  (IF ~hasIdField(table.fields) THEN <<syntheticIdLine(table.name[1])>> ELSE <<>>)
    \o [i \in 1..Len(table.fields) |-> fieldLine(table.fields[i])]

tableDescription(table) ==
  IF Truthy(table.description)
  THEN <<NL, "/**", NL, " * ">> \o escapeQuotes(table.description[1]) \o <<NL, " */">>
  ELSE <<>>

tableClass(table) ==
  LET className == formatClassName(table.name[1])
  IN  tableDescription(table)
        \o <<NL, "export class ">> \o className
        \o <<" extends Schema.Class<">> \o className
        \o <<">(\"">> \o className \o <<"\")({", NL>>
        \o join(fieldDefinitions(table), <<SEP>>)
        \o <<NL, "}) {}", NL>>

\* tableClasses as a generator that keeps one class per table name (the last
\* table of each name) would emit them.
tableClassesLastWins(list) ==
  LET kept == {i \in 1..Len(list) :
                 \A j \in (i + 1)..Len(list) : list[j].name /= list[i].name}
      idx == CHOOSE f \in [1..Cardinality(kept) -> kept] :
               \A a, b \in 1..Cardinality(kept) : a < b => f[a] < f[b]
  IN  join([n \in 1..Cardinality(kept) |-> tableClass(list[idx[n]])], <<NL>>)

\* tables.map(...).join('\n')
tableClasses(list) == join([i \in 1..Len(list) |-> tableClass(list[i])], <<NL>>)

NoResult == [kind |-> "none", text |-> <<>>]
TypeError == [kind |-> "TypeError", text |-> <<>>]

\* A call throws where the code dereferences null: tables.map on a null list,
\* name.charAt on a null name.  Nothing else in the function can throw for
\* values of the declared types.
throws(arg) ==
  \/ ~IsPresent(arg)
  \/ \E i \in 1..Len(arg[1]) : ~IsPresent(arg[1][i].name)

generateEffectSchemas(arg) ==
  IF throws(arg) THEN TypeError
  ELSE [kind |-> "ok", text |-> imports \o <<NL>> \o tableClasses(arg[1])]

\* ------------------------------------------------------------------- inputs
Field(n, t, o, d, v, r) ==
  [name |-> n, type |-> t, optional |-> o, description |-> d,
   defaultValue |-> v, reference |-> r]

Table(n, d, fs) == [name |-> n, description |-> d, fields |-> fs]

Ref(t) == Some([table |-> t])

SeqsUpTo(S, n) == UNION {[1..k -> S] : k \in 0..n}

F_id == Field(N_id, <<"s", "t", "r", "i", "n", "g">>, FALSE, Absent, Absent, Absent)
F_age == Field(<<"a", "g", "e">>, T_int, TRUE, Absent, Absent, Absent)
F_bio == Field(<<"b", "i", "o">>, <<"s", "t", "r", "i", "n", "g">>, FALSE, Some(<<"u", "s", "e", "r", "'", "s", " ", "b", "i", "o">>), Absent, Absent)
F_at == Field(<<"a", "t">>, T_datetime, TRUE, Absent, Some(<<"t", "i", "m", "e", ":", ":", "n", "o", "w", "(", ")">>), Absent)

\* Whole documents: a null list, and lists of up to MaxTables tables, among
\* them tables of the same name, of an empty name and of a null name.
TablePool ==
  { Table(Absent, Absent, <<>>),
    Table(Some(<<>>), Absent, <<F_age>>),
    Table(Some(<<"u", "s", "e", "r">>), Absent, <<F_age>>),
    Table(Some(<<"u", "s", "e", "r">>), Some(<<"t", "h", "e", " ", "u", "s", "e", "r", "'", "s", " ", "t", "a", "b", "l", "e">>), <<F_age, F_id>>),
    Table(Some(<<"P", "o", "s", "t">>), Absent, <<>>),
    Table(Some(<<"_", "l", "o", "g">>), Absent, <<F_id>>) }

DocInputs == {Absent} \cup {Some(s) : s \in SeqsUpTo(TablePool, MaxTables)}

\* One table with up to MaxFields fields, an id field at any position.
TableInputs ==
  {Some(<<Table(Some(<<"u", "s", "e", "r">>), Absent, fs)>>) : fs \in SeqsUpTo({F_id, F_age, F_bio, F_at}, MaxFields)}

\* One table with one field, over every combination of the field's properties.
TypeTags ==
  { T_int, T_number, T_float, T_bool, T_datetime, <<"D", "A", "T", "E", "T", "I", "M", "E">>, <<"D", "a", "t", "e", "T", "i", "m", "e">>,
    T_array, T_array_float, T_array_record, T_object, T_record, <<"R", "e", "c", "o", "r", "d">>,
    T_references, <<"s", "t", "r", "i", "n", "g">>, <<"g", "e", "o", "m", "e", "t", "r", "y">>, <<>> }

Descriptions == {Absent, Some(<<>>), Some(<<"a", "g", "e">>), Some(<<"i", "t", "'", "s">>)}

Defaults ==
  { Absent, Some(<<>>), Some(<<"n", "o", "w">>), Some(<<"t", "i", "m", "e", ":", ":", "n", "o", "w", "(", ")">>), Some(<<"t", "r", "u", "e">>),
    Some(<<"f", "a", "l", "s", "e">>), Some(<<"T", "r", "u", "e">>), Some(<<"4", "2">>), Some(<<"-", "1", ".", "5">>), Some(<<"1", ".">>),
    Some(<<"+", "1">>), Some(<<"'", "x", "'">>), Some(<<"\"", "x", "\"">>), Some(<<"[", "1", "]">>), Some(<<"{", "}">>),
    Some(<<"a", ":", "b">>) }

References == {Absent, Ref(<<"u", "s", "e", "r">>), Ref(N_telegram)}

FieldNames == {<<"f">>, N_id, N_reply}

FieldInputs ==
  { Some(<<Table(Some(N_telegram), Absent, <<Field(n, t, o, d, v, r)>>)>>) :
      n \in FieldNames, t \in TypeTags, o \in BOOLEAN, d \in Descriptions,
      v \in Defaults, r \in References }

\* One field whose description ranges over every string of up to MaxLen
\* characters drawn from an ordinary character, the quote and the backslash.
EscapeAlphabet == {"a", "'", "\\"}

EscapeInputs ==
  { Some(<<Table(Some(<<"u", "s", "e", "r">>), Absent,
                 <<Field(<<"f">>, <<"s", "t", "r", "i", "n", "g">>, FALSE, Some(d), Absent, Absent)>>)>>) :
      d \in SeqsUpTo(EscapeAlphabet, MaxLen) }

Inputs == DocInputs \cup TableInputs \cup FieldInputs \cup EscapeInputs

\* ------------------------------------------------------------ state machine
Init ==
  /\ tables \in Inputs
  /\ result = NoResult

\* One call of generateEffectSchemas(tables); the function keeps no state.
Generate ==
  /\ result = NoResult
  /\ result' = generateEffectSchemas(tables)
  /\ UNCHANGED tables

Next == Generate

Spec == Init /\ [][Next]_vars

\* ------------------------------------------------- reading the generated text
\* The operators below take the returned text apart again, so that the
\* properties speak about the text the call returned.
Text == result.text

Returned == result.kind = "ok"

TableList == tables[1]

PosSet(s, a) == {i \in 1..Len(s) : s[i] = a}

Count(s, a) == Cardinality(PosSet(s, a))

\* The k-th position of piece a in s; 0 when there are fewer than k.
Nth(s, a, k) ==
  IF \E i \in PosSet(s, a) : Cardinality({j \in PosSet(s, a) : j <= i}) = k
  THEN CHOOSE i \in PosSet(s, a) : Cardinality({j \in PosSet(s, a) : j <= i}) = k
  ELSE 0

FirstIdx(s, a) == Nth(s, a, 1)

RECURSIVE Split(_, _)
Split(s, a) ==
  IF FirstIdx(s, a) = 0 THEN <<s>>
  ELSE <<SubSeq(s, 1, FirstIdx(s, a) - 1)>>
         \o Split(SubSeq(s, FirstIdx(s, a) + 1, Len(s)), a)

Between(s, i, j) == SubSeq(s, i + 1, j - 1)

ClassOpen == "export class "
ClassExtends == " extends Schema.Class<"
KeyOpen == ">(\""
KeyClose == "\")({"
ClassClose == "}) {}"

\* The k-th class of the text: its identifier, its constructor key, its body.
ClassIdent(k) == Between(Text, Nth(Text, ClassOpen, k), Nth(Text, ClassExtends, k))
ClassKey(k) == Between(Text, Nth(Text, KeyOpen, k), Nth(Text, KeyClose, k))
ClassBody(k) == Between(Text, Nth(Text, KeyClose, k) + 1, Nth(Text, ClassClose, k) - 1)
ClassChunk(k) == SubSeq(Text, Nth(Text, ClassOpen, k), Nth(Text, ClassClose, k))

LinesOf(k) == Split(ClassBody(k), SEP)

\* The line of the i-th declared field of the k-th table: the declared
\* fields' lines are the last ones of the body.
LineOf(k, i) == LinesOf(k)[Len(LinesOf(k)) - Len(TableList[k].fields) + i]

\* A field line taken apart: name, optional wrapper, validator, annotation
\* entries, and what follows the annotation clause.
ParseLine(line) ==
  LET c == FirstIdx(line, ": ")
      rest == SubSeq(line, c + 1, Len(line))
      wrapped == Len(rest) > 0 /\ rest[1] = "Schema.optional("
      body == IF wrapped THEN Tail(rest) ELSE rest
      a == FirstIdx(body, ".annotations({ ")
      z == FirstIdx(body, " })")
  IN  [ name |-> SubSeq(line, 2, c - 1),
        wrapped |-> wrapped,
        validator |-> IF a > 0 THEN SubSeq(body, 1, a - 1)
                      ELSE IF wrapped THEN SubSeq(body, 1, Len(body) - 1)
                      ELSE body,
        entries |-> IF a > 0 /\ z > a THEN Split(Between(body, a, z), ", ") ELSE <<>>,
        last |-> line[Len(line)] ]

AllFields(P(_, _)) ==
  Returned =>
    \A k \in 1..Len(TableList) : \A i \in 1..Len(TableList[k].fields) :
      P(TableList[k].fields[i], LineOf(k, i))

SomeField(P(_, _)) ==
  /\ Returned
  /\ \E k \in 1..Len(TableList) : \E i \in 1..Len(TableList[k].fields) :
       P(TableList[k].fields[i], LineOf(k, i))

IsDatetime(f) == toLowerCase(f.type) = T_datetime

\* -------------------------------------------------------------------- C1
CoreOf(c) == SubSeq(c, FirstIdx(c, ClassOpen), FirstIdx(c, ClassClose))

\* C1: the returned text starts with the preamble, which occurs once; it
\* holds exactly one class per element of the table list, the k-th class
\* being the class of the k-th table, also when tables share a name; after
\* each class but the last the line ends and an empty line follows; for the
\* empty list the text is the preamble followed by one line break.
C1_OneClassPerTable ==
  Returned =>
    /\ SubSeq(Text, 1, Len(imports)) = imports
    /\ Count(Text, "import { Schema } from \"effect\";") = 1
    /\ Count(Text, "type RecordId<T extends string = string> = string & {") = 1
    /\ Count(Text, "function recordId<T extends string>(tableName: T): Schema.Schema<RecordId<T>> {") = 1
    /\ Count(Text, ClassOpen) = Len(TableList)
    /\ Count(Text, ClassClose) = Len(TableList)
    /\ \A k \in 1..Len(TableList) :
         /\ Nth(Text, ClassOpen, k) > Len(imports)
         /\ ClassChunk(k) = CoreOf(tableClass(TableList[k]))
         /\ k < Len(TableList) =>
              /\ Text[Nth(Text, ClassClose, k) + 1] = NL
              /\ Text[Nth(Text, ClassClose, k) + 2] = NL
              /\ Nth(Text, ClassClose, k) + 2 < Nth(Text, ClassOpen, k + 1)
    /\ TableList = <<>> => Text = imports \o <<NL>>

C1_Witness ==
  /\ Returned
  /\ Len(TableList) = 3
  /\ TableList[1].name = TableList[3].name
  /\ TableList[1] /= TableList[3]

\* -------------------------------------------------------------------- C2
\* C2: for every table, when no declared field is named id the class body
\* starts with the line of a synthesized id field, recordId of the table's
\* own name with description "Unique identifier", followed by the declared
\* fields' lines in declaration order; when a field named id is declared, at
\* any position, the lines are exactly the declared fields' lines in order.
C2_IdSynthesis ==
  Returned =>
    \A k \in 1..Len(TableList) :
      LET fs == TableList[k].fields
          declaresId == \E i \in 1..Len(fs) : fs[i].name = N_id
          off == IF declaresId THEN 0 ELSE 1
      IN  /\ Len(LinesOf(k)) = Len(fs) + off
          /\ ~declaresId =>
               LinesOf(k)[1] =
                 <<"  id: recordId(\"">> \o TableList[k].name[1]
                   \o <<"\").annotations({", NL,
                        "    description: \"Unique identifier\"", NL, "  })">>
          /\ \A i \in 1..Len(fs) :
               /\ LinesOf(k)[off + i] = fieldLine(fs[i])
               /\ ParseLine(LinesOf(k)[off + i]).name = fs[i].name

C2_Witness ==
  /\ Returned
  /\ \E k \in 1..Len(TableList) :
       /\ Len(TableList[k].fields) = 3
       /\ TableList[k].fields[1].name /= N_id
       /\ TableList[k].fields[3].name = N_id
       /\ Len(LinesOf(k)) = 3

\* -------------------------------------------------------------------- C3
\* C3: a field's expression is wrapped in Schema.optional(...) if and only if
\* field.optional is true and field.type, compared case-insensitively, is not
\* datetime.
C3_Line(f, line) ==
  (ParseLine(line).wrapped /\ ParseLine(line).last = ")")
    <=> (f.optional /\ toLowerCase(f.type) /= T_datetime)

\* C3: every declared field's line in the returned text has the
\* Schema.optional( ... ) wrapper if and only if the field is optional and its
\* type, lower-cased, is not datetime.
C3_OptionalWrapping == AllFields(C3_Line)

C3_WitnessField(f, line) ==
  /\ f.optional
  /\ f.type = <<"D", "A", "T", "E", "T", "I", "M", "E">>
  /\ IsPresent(f.defaultValue)
  /\ ~ParseLine(line).wrapped

C3_Witness == SomeField(C3_WitnessField)

\* -------------------------------------------------------------------- C4
IsDefaultEntry(e) == Len(e) > 0 /\ e[1] \in {"default: ", "surrealDefault: '"}

DefaultEntriesOf(line) ==
  SelectSeq(ParseLine(line).entries, IsDefaultEntry)

EmittedUnquoted(v) ==
  \/ startsWith(v, "'") \/ startsWith(v, "\"")
  \/ v = <<"t", "r", "u", "e">> \/ v = <<"f", "a", "l", "s", "e">>
  \/ isNumeric(v)
  \/ startsWith(v, "[") \/ startsWith(v, "{")

\* C4: a default entry is emitted only when field.defaultValue is present
\* (a non-empty string: the code tests its truthiness); then a value holding
\* :: gives surrealDefault: '<value>' and no default entry on a datetime
\* field and default: '<value>' on any other; a value without :: is emitted
\* as default: <value> when it starts with a quote, is true or false, is a
\* signed decimal number or starts with [ or {, and as default: '<value>'
\* otherwise.
C4_Line(f, line) ==
  IF ~Truthy(f.defaultValue) THEN DefaultEntriesOf(line) = <<>>
  ELSE LET v == f.defaultValue[1]
       IN  DefaultEntriesOf(line) =
             << IF includesColons(v)
                THEN IF IsDatetime(f)
                     THEN <<"surrealDefault: '">> \o v \o <<"'">>
                     ELSE <<"default: ", "'">> \o v \o <<"'">>
                ELSE IF EmittedUnquoted(v)
                     THEN <<"default: ">> \o v
                     ELSE <<"default: ", "'">> \o v \o <<"'">> >>

C4_WitnessField(f, line) ==
  /\ f.defaultValue = Some(<<"t", "r", "u", "e">>)
  /\ f.type = T_bool
  /\ DefaultEntriesOf(line) = << <<"default: ", "t", "r", "u", "e">> >>

RECURSIVE ReadLiteral(_, _)
ReadLiteral(s, acc) ==
  IF Len(s) = 0 THEN [ok |-> TRUE, value |-> acc]
  ELSE IF s[1] = "\\"
       THEN IF Len(s) = 1 THEN [ok |-> FALSE, value |-> acc]
            ELSE ReadLiteral(SubSeq(s, 3, Len(s)), Append(acc, s[2]))
       ELSE IF s[1] = "'" THEN [ok |-> FALSE, value |-> acc]
            ELSE ReadLiteral(Tail(s), Append(acc, s[1]))

\* The text emitted between description: ' and the closing quote.
EmittedDescription(line) ==
  LET e == ParseLine(line).entries[1]
  IN  SubSeq(e, 2, Len(e) - 1)

HasQuote(s) == \E i \in 1..Len(s) : s[i] = "'"

\* C5: for every description containing a single quote, the emitted text has
\* every quote escaped, and read back as a single-quoted string literal it
\* is the original description.
C5_Line(f, line) ==
  (Truthy(f.description) /\ HasQuote(f.description[1])) =>
    ReadLiteral(EmittedDescription(line), <<>>)
      = [ok |-> TRUE, value |-> f.description[1]]

\* C5: for every declared field whose description holds a quote, the text
\* emitted inside description: '...' reads back, as a single-quoted string
\* literal, to the original description.
C5_EscapingRoundTrip == AllFields(C5_Line)

\* -------------------------------------------------------------------- C6
\* C6: the call ends in a hard failure exactly when the table list is null,
\* or some table's name is empty or cannot be formatted (is null).
C6_HardFailureExactly ==
  result /= NoResult =>
    ( (result = TypeError)
        <=> ( \/ ~IsPresent(tables)
              \/ \E k \in 1..Len(tables[1]) :
                   \/ ~IsPresent(tables[1][k].name)
                   \/ tables[1][k].name = Some(<<>>) ) )

\* -------------------------------------------------------------------- C7
Vocabulary ==
  { T_int, T_number, T_float, T_bool, T_datetime, T_array, T_array_float,
    T_array_record, T_object, T_record, T_references }

PatternConstrained == {PatternRecordId, PatternRecordNum}

\* What C7 holds of every reference type: without a reference, a
\* pattern-constrained string, or a sequence of one for the array types.
C7_OriginalLine(f, line) ==
  LET t == toLowerCase(f.type)
      v == ParseLine(line).validator
  IN  /\ t \notin Vocabulary => v = <<"Schema.String">>
      /\ (t = T_record /\ ~IsPresent(f.reference)) =>
           (Len(v) = 1 /\ v[1] \in PatternConstrained)
      /\ (t \in {T_array_record, T_references} /\ ~IsPresent(f.reference)) =>
           (Len(v) = 3 /\ v[1] = "Schema.Array(" /\ v[2] \in PatternConstrained
              /\ v[3] = ")")

\* C7 as stated: no error is raised, and every field's validator is as
\* C7_OriginalLine says.
C7_Original ==
  /\ (IsPresent(tables) /\ \A k \in 1..Len(tables[1]) : IsPresent(tables[1][k].name))
       => result /= TypeError
  /\ AllFields(C7_OriginalLine)

\* C7 (amended): type mapping never raises an error; a type tag outside the
\* vocabulary maps to Schema.String; without a reference, record maps to a
\* pattern-constrained string, array_record to a sequence of a
\* pattern-constrained string, and references to a sequence of plain
\* Schema.String.
C7_Line(f, line) ==
  LET t == toLowerCase(f.type)
      v == ParseLine(line).validator
  IN  /\ t \notin Vocabulary => v = <<"Schema.String">>
      /\ (t = T_record /\ ~IsPresent(f.reference)) =>
           (Len(v) = 1 /\ v[1] \in PatternConstrained)
      /\ (t = T_array_record /\ ~IsPresent(f.reference)) =>
           (Len(v) = 3 /\ v[1] = "Schema.Array(" /\ v[2] \in PatternConstrained
              /\ v[3] = ")")
      /\ (t = T_references /\ ~IsPresent(f.reference)) =>
           v = <<"Schema.Array(", "Schema.String", ")">>

\* C7 (amended): no call with a list and non-null names raises an error, and
\* every declared field's validator in the returned text is the fallback
\* C7_Line prescribes (references without a reference: a sequence of plain
\* Schema.String).
C7_GracefulFallback ==
  /\ (IsPresent(tables) /\ \A k \in 1..Len(tables[1]) : IsPresent(tables[1][k].name))
       => result /= TypeError
  /\ AllFields(C7_Line)

C7_WitnessField(f, line) ==
  /\ f.type = T_references
  /\ ~IsPresent(f.reference)
  /\ ParseLine(line).validator = <<"Schema.Array(", "Schema.String", ")">>

C7_Witness == SomeField(C7_WitnessField)

\* -------------------------------------------------------------------- C9
\* The table name with its first character upper-cased, the rest unchanged.
IsFormatted(ident, name) ==
  /\ Len(ident) = Len(name)
  /\ \A i \in 2..Len(name) : ident[i] = name[i]
  /\ Len(name) > 0 =>
       IF IndexIn(name[1], LowerChars) > 0
       THEN ident[1] = UpperChars[IndexIn(name[1], LowerChars)]
       ELSE ident[1] = name[1]

ClauseOf(line) ==
  IF ParseLine(line).entries = <<>> THEN <<>>
  ELSE <<".annotations({ ">> \o join(ParseLine(line).entries, <<", ">>) \o <<" })">>

EntryCount(f) ==
  (IF Truthy(f.description) THEN 1 ELSE 0) + (IF Truthy(f.defaultValue) THEN 1 ELSE 0)

Wraps(f) == f.optional /\ ~IsDatetime(f)

\* What C10 holds: the line is two spaces, the name, ": ", the mapped type
\* with its optional wrapper, and the annotation clause last.
C10_OriginalLine(f, line) ==
  /\ Len(ParseLine(line).entries) = EntryCount(f)
  /\ line = <<"  ">> \o f.name \o <<": ">>
              \o (IF Wraps(f)
                  THEN <<"Schema.optional(">> \o validator(f) \o <<")">>
                  ELSE validator(f))
              \o ClauseOf(line)

\* C10 as stated: every declared field's line ends with its annotation clause,
\* after the optional wrapper.
C10_Original == AllFields(C10_OriginalLine)

\* C10 (amended): the line is two spaces, the field name, ": ", the
\* dispatched validator and then the annotation clause (.annotations({ ... })
\* with the description and default entries joined by ", " when at least one
\* exists, nothing otherwise); when the optional wrapper applies it encloses
\* validator and annotation clause together, so the line ends with the
\* wrapper's closing parenthesis.
C10_Line(f, line) ==
  /\ Len(ParseLine(line).entries) = EntryCount(f)
  /\ (Truthy(f.description) /\ Truthy(f.defaultValue)) =>
       /\ ParseLine(line).entries[1][1] = "description: '"
       /\ IsDefaultEntry(ParseLine(line).entries[2])
  /\ line = <<"  ">> \o f.name \o <<": ">>
              \o (IF Wraps(f) THEN <<"Schema.optional(">> ELSE <<>>)
              \o validator(f) \o ClauseOf(line)
              \o (IF Wraps(f) THEN <<")">> ELSE <<>>)

\* C10 (amended): every declared field's line is name, validator, annotation
\* clause, with the optional wrapper, when it applies, around validator and
\* clause together.
C10_FieldLineLayout == AllFields(C10_Line)

C10_WitnessField(f, line) ==
  /\ Wraps(f)
  /\ Truthy(f.description)
  /\ Truthy(f.defaultValue)
  /\ Len(ParseLine(line).entries) = 2
  /\ ParseLine(line).last = ")"

C10_Witness == SomeField(C10_WitnessField)
====
